---- MODULE Spec2Model ----
(***************************************************************************)
(* A model of json_keys_case_changer (src/src/lib.rs): CaseChanger, which  *)
(* rebuilds a serde_json::Value with every object key renamed, either by a *)
(* manual rename table or by convert_case's to_case.                       *)
(*                                                                         *)
(* Strings are sequences of one-character strings, so that to_case and the *)
(* byte order of keys are computed and not assumed.                        *)
(***************************************************************************)
EXTENDS Integers, Sequences, FiniteSets, TLC

VARIABLES
    json_in,              \* CaseChanger.json_in
    case,                 \* CaseChanger.case
    manual_renames,       \* CaseChanger.manual_renames, in the HashMap's iteration order
    rename_behavior,      \* CaseChanger.rename_behavior
    json_out,             \* the value returned by the latest convert(), NoResult before it
    new_result,           \* what CaseChanger::new returned
    arg_rename_list,      \* the argument of the latest with_manual_renames call
    arg_rename_behavior,  \* the argument of the latest with_custom_rename_behavior call
    preserve_order        \* serde_json's Map: IndexMap (TRUE) or BTreeMap (FALSE)

vars == <<json_in, case, manual_renames, rename_behavior, json_out, new_result,
          arg_rename_list, arg_rename_behavior, preserve_order>>

(***************************************************************************)
(* Bounds of the model.                                                    *)
(***************************************************************************)
\* The input tree has at most MaxNodes values (containers and leaves).
MaxNodes == 3

(***************************************************************************)
(* Strings and convert_case.                                               *)
(***************************************************************************)
IsUpper(c) == c \in {"A", "B"}
IsLower(c) == c \in {"a", "b"}

ToLowerChar(c) == CASE c = "A" -> "a" [] c = "B" -> "b" [] OTHER -> c
ToUpperChar(c) == CASE c = "a" -> "A" [] c = "b" -> "B" [] OTHER -> c

\* The byte of a character: Rust orders strings by their bytes.
CharCode(c) == CASE c = "A" -> 65 [] c = "B" -> 66 [] c = "_" -> 95
                 [] c = "a" -> 97 [] c = "b" -> 98

RECURSIVE StrLess(_, _)
StrLess(s, t) ==
    IF t = <<>> THEN FALSE
    ELSE IF s = <<>> THEN TRUE
    ELSE IF CharCode(Head(s)) # CharCode(Head(t))
         THEN CharCode(Head(s)) < CharCode(Head(t))
    ELSE StrLess(Tail(s), Tail(t))

\* The words of an identifier: split at "_" and between a lower-case letter
\* and the upper-case letter that follows it.
RECURSIVE SplitWords(_, _, _, _)
SplitWords(s, i, cur, acc) ==
    IF i > Len(s) THEN (IF cur = <<>> THEN acc ELSE Append(acc, cur))
    ELSE IF s[i] = "_"
         THEN SplitWords(s, i + 1, <<>>, IF cur = <<>> THEN acc ELSE Append(acc, cur))
    ELSE IF i > 1 /\ IsUpper(s[i]) /\ IsLower(s[i - 1])
         THEN SplitWords(s, i + 1, <<s[i]>>, Append(acc, cur))
    ELSE SplitWords(s, i + 1, Append(cur, s[i]), acc)

RECURSIVE LowerWord(_)
LowerWord(w) ==
    IF w = <<>> THEN <<>> ELSE <<ToLowerChar(Head(w))>> \o LowerWord(Tail(w))

CapitalWord(w) ==
    IF w = <<>> THEN <<>> ELSE <<ToUpperChar(Head(w))>> \o LowerWord(Tail(w))

RECURSIVE JoinSnake(_)
JoinSnake(words) ==
    IF words = <<>> THEN <<>>
    ELSE IF Len(words) = 1 THEN LowerWord(words[1])
    ELSE LowerWord(words[1]) \o <<"_">> \o JoinSnake(Tail(words))

RECURSIVE JoinCapital(_)
JoinCapital(words) ==
    IF words = <<>> THEN <<>> ELSE CapitalWord(Head(words)) \o JoinCapital(Tail(words))

JoinCamel(words) ==
    IF words = <<>> THEN <<>> ELSE LowerWord(Head(words)) \o JoinCapital(Tail(words))

Cases == {"Snake", "Camel"}

\* What to_case does to a string: its words, joined in the convention.
ToCaseWords(s, new_case) ==
    IF new_case = "Snake" THEN JoinSnake(SplitWords(s, 1, <<>>, <<>>))
    ELSE JoinCamel(SplitWords(s, 1, <<>>, <<>>))

\* The strings of the model: a camelCase key, its snake_case form and a
\* one-word key, which every convention leaves as it is.
Keys == {<<"a", "B">>, <<"a", "_", "b">>, <<"b">>}

\* to_case of every string of the model, computed once.
ToCaseOfKeys == [new_case \in Cases |-> [s \in Keys |-> ToCaseWords(s, new_case)]]

\* key.to_case(case)
to_case(s, new_case) == ToCaseOfKeys[new_case][s]

(***************************************************************************)
(* serde_json::Value.                                                      *)
(***************************************************************************)
Mk(tag, b, n, s, elems, entries) ==
    [tag |-> tag, b |-> b, n |-> n, s |-> s, elems |-> elems, entries |-> entries]

Null == Mk("Null", FALSE, 0, <<>>, <<>>, <<>>)
Bool(b) == Mk("Bool", b, 0, <<>>, <<>>, <<>>)
Number(n) == Mk("Number", FALSE, n, <<>>, <<>>, <<>>)
String(s) == Mk("String", FALSE, 0, s, <<>>, <<>>)
Array(elems) == Mk("Array", FALSE, 0, <<>>, elems, <<>>)
\* entries: the map's <<key, value>> pairs in its iteration order
Object(entries) == Mk("Object", FALSE, 0, <<>>, <<>>, entries)

\* No convert() has returned yet.
NoResult == Mk("NoResult", FALSE, 0, <<>>, <<>>, <<>>)

IsLeaf(v) == v.tag \in {"Null", "Bool", "Number", "String"}

\* The leaves a root can be: one of each kind. The string is a key of the
\* model, and of its rename tables, that is not in camelCase.
Leaves == {Null, Bool(TRUE), Number(1), String(<<"a", "_", "b">>)}

\* The leaves inside a container: internal_convert has one arm for the four
\* kinds, and two different leaves tell the entries of a map apart.
InnerLeaves == {Number(1), String(<<"a", "_", "b">>)}

KeyAt(map, i) == map[i][1]
ValueAt(map, i) == map[i][2]
KeySet(map) == {KeyAt(map, i) : i \in 1..Len(map)}

\* Map::get's position of a key, 0 when the map does not hold it.
IndexOfKey(map, k) ==
    IF \E i \in 1..Len(map) : KeyAt(map, i) = k
    THEN CHOOSE i \in 1..Len(map) : KeyAt(map, i) = k
    ELSE 0

\* A mutant of MapInsert: the entry already under the key is kept.
MapInsertKeepFirst(map, k, v) ==
    IF IndexOfKey(map, k) # 0 THEN map
    ELSE IF preserve_order THEN Append(map, <<k, v>>)
    ELSE LET p == Cardinality({i \in 1..Len(map) : StrLess(KeyAt(map, i), k)})
         IN  SubSeq(map, 1, p) \o <<<<k, v>>>> \o SubSeq(map, p + 1, Len(map))

\* A mutant of MapInsert: a second entry is added under a key already held.
MapInsertDuplicate(map, k, v) ==
    IF preserve_order THEN Append(map, <<k, v>>)
    ELSE LET p == Cardinality({i \in 1..Len(map) : StrLess(KeyAt(map, i), k)})
         IN  SubSeq(map, 1, p) \o <<<<k, v>>>> \o SubSeq(map, p + 1, Len(map))

\* Map::insert: the value under a key already held is replaced where it is;
\* a new key goes to the end (IndexMap) or to its place in byte order
\* (BTreeMap).
MapInsert(map, k, v) ==
    IF IndexOfKey(map, k) # 0
    THEN [map EXCEPT ![IndexOfKey(map, k)] = <<KeyAt(map, IndexOfKey(map, k)), v>>]
    ELSE IF preserve_order THEN Append(map, <<k, v>>)
    ELSE LET p == Cardinality({i \in 1..Len(map) : StrLess(KeyAt(map, i), k)})
         IN  SubSeq(map, 1, p) \o <<<<k, v>>>> \o SubSeq(map, p + 1, Len(map))

(***************************************************************************)
(* The rename table and determine_manual_case.                             *)
(***************************************************************************)
Some(s) == [some |-> TRUE, val |-> s]
None == [some |-> FALSE, val |-> <<>>]

\* The first entry, in the table's iteration order, whose value is the key.
RECURSIVE FindByValue(_, _, _)
FindByValue(renames, i, key) ==
    IF i > Len(renames) THEN None
    ELSE IF renames[i][2] = key THEN Some(renames[i][1])
    ELSE FindByValue(renames, i + 1, key)

\* A mutant of determine_manual_case: the two behaviours are swapped.
determine_manual_case_swapped(key, renames, behavior) ==
    IF behavior = "ByValue"
    THEN IF IndexOfKey(renames, key) # 0
         THEN Some(ValueAt(renames, IndexOfKey(renames, key)))
         ELSE None
    ELSE FindByValue(renames, 1, key)

\* A mutant of determine_manual_case: the override found is case-converted.
determine_manual_case_converting(key, renames, behavior) ==
    IF behavior = "ByKey"
    THEN IF IndexOfKey(renames, key) # 0
         THEN Some(to_case(ValueAt(renames, IndexOfKey(renames, key)), case))
         ELSE None
    ELSE LET found == FindByValue(renames, 1, key)
         IN  IF found.some THEN Some(to_case(found.val, case)) ELSE None

determine_manual_case(key, renames, behavior) ==
    IF behavior = "ByKey"
    THEN IF IndexOfKey(renames, key) # 0
         THEN Some(ValueAt(renames, IndexOfKey(renames, key)))
         ELSE None
    ELSE FindByValue(renames, 1, key)

\* The key an entry is inserted under: the override, or else key.to_case(case).
ResolveKey(key, new_case, renames, behavior) ==
    LET manual_case == determine_manual_case(key, renames, behavior)
    IN  IF manual_case.some THEN manual_case.val ELSE to_case(key, new_case)

(***************************************************************************)
(* internal_convert.                                                       *)
(***************************************************************************)
RECURSIVE internal_convert(_, _, _, _)
RECURSIVE ConvertElems(_, _, _, _, _, _)
RECURSIVE ConvertEntries(_, _, _, _, _, _)

\* A mutant of ConvertElems: each converted element is put in front.
ConvertElemsReversed(arr, i, deep_arr, new_case, renames, behavior) ==
    IF i > Len(arr) THEN deep_arr
    ELSE ConvertElems(arr, i + 1,
                      <<internal_convert(arr[i], new_case, renames, behavior)>> \o deep_arr,
                      new_case, renames, behavior)

\* A mutant of ConvertElems: a string element is case-converted as if it were
\* a key.
ConvertElemsConvertingStrings(arr, i, deep_arr, new_case, renames, behavior) ==
    IF i > Len(arr) THEN deep_arr
    ELSE ConvertElems(arr, i + 1,
                      Append(deep_arr,
                             IF arr[i].tag = "String"
                             THEN String(to_case(arr[i].s, new_case))
                             ELSE internal_convert(arr[i], new_case, renames, behavior)),
                      new_case, renames, behavior)

\* for deep_value in arr { deep_arr.push(internal_convert(deep_value, ..)) }
ConvertElems(arr, i, deep_arr, new_case, renames, behavior) ==
    IF i > Len(arr) THEN deep_arr
    ELSE ConvertElems(arr, i + 1,
                      Append(deep_arr, internal_convert(arr[i], new_case, renames, behavior)),
                      new_case, renames, behavior)

\* A mutant of EntryValue: a string under a key is case-converted as if it
\* were a key.
EntryValueConvertingStrings(value, new_case, renames, behavior) ==
    IF value.tag = "Object" THEN internal_convert(value, new_case, renames, behavior)
    ELSE IF value.tag = "Array"
         THEN Array(ConvertElems(value.elems, 1, <<>>, new_case, renames, behavior))
    ELSE IF value.tag = "String" THEN String(to_case(value.s, new_case))
    ELSE value

\* The three arms of the match on (key, value): what is inserted for value.
EntryValue(value, new_case, renames, behavior) ==
    IF value.tag = "Object" THEN internal_convert(value, new_case, renames, behavior)
    ELSE IF value.tag = "Array"
         THEN Array(ConvertElems(value.elems, 1, <<>>, new_case, renames, behavior))
    ELSE value

\* for (key, value) in actual_json.iter() { .. new_json.insert(..) }
ConvertEntries(actual_json, i, new_json, new_case, renames, behavior) ==
    IF i > Len(actual_json) THEN new_json
    ELSE ConvertEntries(actual_json, i + 1,
                        MapInsert(new_json,
                                  ResolveKey(KeyAt(actual_json, i), new_case, renames, behavior),
                                  EntryValue(ValueAt(actual_json, i), new_case, renames, behavior)),
                        new_case, renames, behavior)

internal_convert(actual_json, new_case, renames, behavior) ==
    IF actual_json.tag = "Array"
    THEN Array(ConvertElems(actual_json.elems, 1, <<>>, new_case, renames, behavior))
    ELSE IF actual_json.tag = "Object"
    THEN Object(ConvertEntries(actual_json.entries, 1, <<>>, new_case, renames, behavior))
    ELSE actual_json

(***************************************************************************)
(* The inputs: every value of at most MaxNodes nodes, every table made of  *)
(* RenamePairs.                                                            *)
(***************************************************************************)
\* The sequences of n different keys a Map can iterate in: any order in an
\* IndexMap, byte order in a BTreeMap.
RECURSIVE KeySeqs(_, _)
KeySeqs(n, ordered) ==
    IF n = 0 THEN {<<>>}
    ELSE {Append(p[1], p[2]) :
            p \in {q \in KeySeqs(n - 1, ordered) \X Keys :
                     \A i \in 1..Len(q[1]) :
                        IF ordered THEN q[1][i] # q[2] ELSE StrLess(q[1][i], q[2])}}

RECURSIVE Zip(_, _)
Zip(ks, vs) ==
    IF ks = <<>> THEN <<>>
    ELSE <<<<Head(ks), Head(vs)>>>> \o Zip(Tail(ks), Tail(vs))

RECURSIVE ValuesOfSize(_, _)
RECURSIVE ForestsOfSize(_, _)

\* The sequences of values with n nodes in all.
ForestsOfSize(n, ordered) ==
    IF n = 0 THEN {<<>>}
    ELSE UNION {{<<v>> \o f : v \in ValuesOfSize(m, ordered),
                              f \in ForestsOfSize(n - m, ordered)} : m \in 1..n}

\* The values with n nodes that a container can hold.
ValuesOfSize(n, ordered) ==
    IF n = 1 THEN InnerLeaves \cup {Array(<<>>), Object(<<>>)}
    ELSE UNION {{Array(f)} \cup {Object(Zip(ks, f)) : ks \in KeySeqs(Len(f), ordered)} :
                  f \in ForestsOfSize(n - 1, ordered)}

InputValues(ordered) == Leaves \cup UNION {ValuesOfSize(n, ordered) : n \in 1..MaxNodes}

\* The entries a table is made of, <<key side, value side>>: different key
\* sides, as a HashMap needs, and the same value side, so that ByValue has
\* two entries to choose from.
RenamePairs == {<<<<"b">>, <<"a", "B">>>>,
                <<<<"a", "_", "b">>, <<"a", "B">>>>}

\* The tables: a HashMap holds a key once, and iterates in an order of its own.
RECURSIVE RenameMapsOfSize(_)
RenameMapsOfSize(n) ==
    IF n = 0 THEN {<<>>}
    ELSE {Append(p[1], p[2]) :
            p \in {q \in RenameMapsOfSize(n - 1) \X RenamePairs :
                     \A i \in 1..Len(q[1]) : q[1][i][1] # q[2][1]}}

RenameMaps == UNION {RenameMapsOfSize(n) : n \in 0..Cardinality(RenamePairs)}

RenameBehaviors == {"ByKey", "ByValue"}

(***************************************************************************)
(* The operations.                                                         *)
(***************************************************************************)
\* A mutant of new: a root that is not an object is refused.
new_object_root_only(json_obj, new_case) ==
    /\ json_in = json_obj
    /\ case = new_case
    /\ manual_renames = <<>>
    /\ rename_behavior = "ByKey"
    /\ new_result = IF json_obj.tag = "Object" THEN "Ok" ELSE "Err"

\* CaseChanger::new
new(json_obj, new_case) ==
    /\ json_in = json_obj
    /\ case = new_case
    /\ manual_renames = <<>>
    /\ rename_behavior = "ByKey"
    /\ new_result = "Ok"

Init ==
    /\ preserve_order \in BOOLEAN
    /\ \E json_obj \in InputValues(preserve_order), new_case \in Cases :
          new(json_obj, new_case)
    /\ json_out = NoResult
    /\ arg_rename_list = <<>>
    /\ arg_rename_behavior = "ByKey"

\* A mutant of with_manual_renames: the entries of the table held stay, and
\* the new table's entries with other keys are added.
with_manual_renames_merging(rename_list) ==
    /\ new_result = "Ok"
    /\ manual_renames' =
          manual_renames \o
          SelectSeq(rename_list, LAMBDA e : IndexOfKey(manual_renames, e[1]) = 0)
    /\ arg_rename_list' = rename_list
    /\ json_out' = NoResult
    /\ UNCHANGED <<json_in, case, rename_behavior, new_result, arg_rename_behavior,
                   preserve_order>>

\* CaseChanger::with_manual_renames, on the converter new returned. The value
\* an earlier convert() returned is the caller's, not the converter's: the
\* model stops tracking it.
with_manual_renames(rename_list) ==
    /\ new_result = "Ok"
    /\ manual_renames' = rename_list
    /\ arg_rename_list' = rename_list
    /\ json_out' = NoResult
    /\ UNCHANGED <<json_in, case, rename_behavior, new_result, arg_rename_behavior,
                   preserve_order>>

\* CaseChanger::with_custom_rename_behavior
with_custom_rename_behavior(behavior) ==
    /\ new_result = "Ok"
    /\ rename_behavior' = behavior
    /\ arg_rename_behavior' = behavior
    /\ json_out' = NoResult
    /\ UNCHANGED <<json_in, case, manual_renames, new_result, arg_rename_list,
                   preserve_order>>

\* A mutant of convert: the result is also stored as the converter's input.
convert_storing_result ==
    /\ new_result = "Ok"
    /\ json_out' = internal_convert(json_in, case, manual_renames, rename_behavior)
    /\ json_in' = json_out'
    /\ UNCHANGED <<case, manual_renames, rename_behavior, new_result,
                   arg_rename_list, arg_rename_behavior, preserve_order>>

\* CaseChanger::convert
convert ==
    /\ new_result = "Ok"
    /\ json_out' = internal_convert(json_in, case, manual_renames, rename_behavior)
    /\ UNCHANGED <<json_in, case, manual_renames, rename_behavior, new_result,
                   arg_rename_list, arg_rename_behavior, preserve_order>>

Next ==
    \/ \E rename_list \in RenameMaps : with_manual_renames(rename_list)
    \/ \E behavior \in RenameBehaviors : with_custom_rename_behavior(behavior)
    \/ convert

Spec == Init /\ [][Next]_vars

(***************************************************************************)
(* What the properties below speak of.                                     *)
(***************************************************************************)
\* The key a key of the input is written under, and the conversion of a
\* value, with the converter as it is configured.
Resolved(key) == ResolveKey(key, case, manual_renames, rename_behavior)
Converted(value) == internal_convert(value, case, manual_renames, rename_behavior)

\* The overrides the table has for a key: the value sides of the entries with
\* that key side under ByKey, the key sides of the entries with that value
\* side under ByValue.
Overrides(key) ==
    IF rename_behavior = "ByKey"
    THEN {e[2] : e \in {manual_renames[i] : i \in {j \in 1..Len(manual_renames) :
                                                    manual_renames[j][1] = key}}}
    ELSE {e[1] : e \in {manual_renames[i] : i \in {j \in 1..Len(manual_renames) :
                                                    manual_renames[j][2] = key}}}

ResolvedKeys(entries) == {Resolved(KeyAt(entries, i)) : i \in 1..Len(entries)}

\* The entry is the latest of its map, in iteration order, to resolve to its key.
IsLatest(entries, i) ==
    \A j \in 1..Len(entries) :
        Resolved(KeyAt(entries, j)) = Resolved(KeyAt(entries, i)) => j <= i

\* Two sibling keys of the map resolve to the same key.
Collides(entries) ==
    \E i, j \in 1..Len(entries) :
        i # j /\ Resolved(KeyAt(entries, i)) = Resolved(KeyAt(entries, j))

Range(seq) == {seq[i] : i \in DOMAIN seq}

\* The pairs <<input value, output value>> at the same place of the two trees,
\* as a sequence: the roots, the elements of two arrays at the same index, and
\* an input entry's value with the output value under the key it resolves to,
\* for the entry that is the latest to resolve to that key.
RECURSIVE NodePairs(_, _)
RECURSIVE ElemPairsFrom(_, _, _)
RECURSIVE EntryPairsFrom(_, _, _)

ElemPairsFrom(t, u, i) ==
    IF i > Len(t.elems) \/ i > Len(u.elems) THEN <<>>
    ELSE NodePairs(t.elems[i], u.elems[i]) \o ElemPairsFrom(t, u, i + 1)

EntryPairsFrom(t, u, i) ==
    IF i > Len(t.entries) THEN <<>>
    ELSE LET m == IndexOfKey(u.entries, Resolved(KeyAt(t.entries, i)))
         IN  (IF IsLatest(t.entries, i) /\ m # 0
              THEN NodePairs(ValueAt(t.entries, i), ValueAt(u.entries, m))
              ELSE <<>>) \o EntryPairsFrom(t, u, i + 1)

NodePairs(t, u) ==
    <<<<t, u>>>> \o
    (IF t.tag = "Array" /\ u.tag = "Array" THEN ElemPairsFrom(t, u, 1)
     ELSE IF t.tag = "Object" /\ u.tag = "Object" THEN EntryPairsFrom(t, u, 1)
     ELSE <<>>)

\* The pairs of the stored input and the value convert() returned.
ConvertedPairs ==
    IF json_out = NoResult THEN {}
    ELSE Range(NodePairs(json_in, json_out))

RECURSIVE AllKeys(_)
AllKeys(v) ==
    IF v.tag = "Array" THEN UNION {AllKeys(v.elems[i]) : i \in 1..Len(v.elems)}
    ELSE IF v.tag = "Object"
    THEN KeySet(v.entries) \cup
         UNION {AllKeys(ValueAt(v.entries, i)) : i \in 1..Len(v.entries)}
    ELSE {}

RECURSIVE IsValue(_)
IsValue(v) ==
    \/ IsLeaf(v)
    \/ v.tag = "Array" /\ \A i \in 1..Len(v.elems) : IsValue(v.elems[i])
    \/ /\ v.tag = "Object"
       /\ Cardinality(KeySet(v.entries)) = Len(v.entries)
       /\ \A i \in 1..Len(v.entries) : IsValue(ValueAt(v.entries, i))

K_aB == <<"a", "B">>
K_a_b == <<"a", "_", "b">>
K_b == <<"b">>

(***************************************************************************)
(* C1.                                                                     *)
(***************************************************************************)
\* C1 as stated: the output has the shape of the input. At every place of
\* the two trees, a leaf is the input's leaf, an array is an array of the same
\* length, and an object is an object with the same number of entries, which
\* holds a value under the resolved key of every input key.
Claim1AsStated ==
    \A p \in ConvertedPairs :
        /\ IsLeaf(p[1]) => p[2] = p[1]
        /\ p[1].tag = "Array" =>
              p[2].tag = "Array" /\ Len(p[2].elems) = Len(p[1].elems)
        /\ p[1].tag = "Object" =>
              /\ p[2].tag = "Object"
              /\ ResolvedKeys(p[1].entries) \subseteq KeySet(p[2].entries)
              /\ Len(p[2].entries) = Len(p[1].entries)

\* C1, amended: the output has the shape of the input but for the entries
\* that collide. At every place of the two trees, a leaf is the input's leaf,
\* an array is an array of the same length, and an object is an object with
\* one entry for each different resolved key of the input object: as many
\* entries as the input has when no two of its keys resolve to the same key.
Claim1 ==
    \A p \in ConvertedPairs :
        /\ IsLeaf(p[1]) => p[2] = p[1]
        /\ p[1].tag = "Array" =>
              p[2].tag = "Array" /\ Len(p[2].elems) = Len(p[1].elems)
        /\ p[1].tag = "Object" =>
              /\ p[2].tag = "Object"
              /\ ResolvedKeys(p[1].entries) \subseteq KeySet(p[2].entries)
              /\ Len(p[2].entries) = Cardinality(ResolvedKeys(p[1].entries))
              /\ ~Collides(p[1].entries) => Len(p[2].entries) = Len(p[1].entries)

\* An object in an object was converted: the nesting and the leaf are the
\* input's, the two keys are renamed.
Witness1 ==
    /\ case = "Snake" /\ manual_renames = <<>>
    /\ json_in = Object(<<<<K_aB, Object(<<<<K_aB, String(K_a_b)>>>>)>>>>)
    /\ json_out = Object(<<<<K_a_b, Object(<<<<K_a_b, String(K_a_b)>>>>)>>>>)

(***************************************************************************)
(* C2.                                                                     *)
(***************************************************************************)
\* C2: override precedence. For every object at any depth and every key of
\* it the table has an override for, the output object holds an override of
\* that key, and every output key that is not the resolved key of a sibling
\* is an override of it: not the key's case conversion, and not the case
\* conversion of the override.
Claim2 ==
    \A p \in ConvertedPairs :
        p[1].tag = "Object" =>
            /\ p[2].tag = "Object"
            /\ \A i \in 1..Len(p[1].entries) :
                  LET key == KeyAt(p[1].entries, i)
                      siblings == {Resolved(KeyAt(p[1].entries, j)) :
                                     j \in 1..Len(p[1].entries) \ {i}}
                  IN  Overrides(key) # {} =>
                         /\ Overrides(key) \cap KeySet(p[2].entries) # {}
                         /\ KeySet(p[2].entries) \ siblings \subseteq Overrides(key)

\* A key overridden at two depths, the override not in the convention asked
\* for, which would leave the key as it is.
Witness2 ==
    /\ case = "Snake" /\ rename_behavior = "ByKey"
    /\ manual_renames = <<<<K_b, K_aB>>>>
    /\ json_in = Object(<<<<K_b, Object(<<<<K_b, Number(1)>>>>)>>>>)
    /\ json_out = Object(<<<<K_aB, Object(<<<<K_aB, Number(1)>>>>)>>>>)

(***************************************************************************)
(* C3.                                                                     *)
(***************************************************************************)
\* C3: the direction of the lookup. determine_manual_case returns an
\* override exactly when the table has one for the key in the active
\* behaviour, and then one of them; when it has none, the key resolves to
\* its case conversion; and a root object of one entry becomes the object of
\* that entry under the resolved key.
Claim3 ==
    /\ \A key \in Keys :
          LET manual_case == determine_manual_case(key, manual_renames, rename_behavior)
          IN  /\ manual_case.some <=> Overrides(key) # {}
              /\ manual_case.some => manual_case.val \in Overrides(key)
              /\ Overrides(key) = {} => Resolved(key) = to_case(key, case)
    /\ (json_out # NoResult /\ json_in.tag = "Object" /\ Len(json_in.entries) = 1) =>
          LET key == KeyAt(json_in.entries, 1)
          IN  /\ json_out.tag = "Object" /\ Len(json_out.entries) = 1
              /\ IF Overrides(key) # {}
                 THEN KeyAt(json_out.entries, 1) \in Overrides(key)
                 ELSE KeyAt(json_out.entries, 1) = to_case(key, case)

\* The table {"b": "aB"} by value: {"aB": 1} became {"b": 1}, not {"a_b": 1}.
Witness3 ==
    /\ case = "Snake" /\ rename_behavior = "ByValue"
    /\ manual_renames = <<<<K_b, K_aB>>>>
    /\ json_in = Object(<<<<K_aB, Number(1)>>>>)
    /\ json_out = Object(<<<<K_b, Number(1)>>>>)

(***************************************************************************)
(* C4.                                                                     *)
(***************************************************************************)
\* C4: last write wins. For every object at any depth, when sibling keys
\* resolve to the same key the output object has exactly one entry under it,
\* and its value is the conversion of the value of the latest of them in the
\* input's iteration order.
Claim4 ==
    \A p \in ConvertedPairs :
        p[1].tag = "Object" =>
            /\ p[2].tag = "Object"
            /\ \A i, j \in 1..Len(p[1].entries) :
                  (/\ i # j
                   /\ Resolved(KeyAt(p[1].entries, i)) = Resolved(KeyAt(p[1].entries, j))
                   /\ IsLatest(p[1].entries, j)) =>
                      LET held == {m \in 1..Len(p[2].entries) :
                                     KeyAt(p[2].entries, m) = Resolved(KeyAt(p[1].entries, j))}
                      IN  /\ Cardinality(held) = 1
                          /\ \A m \in held :
                                ValueAt(p[2].entries, m) = Converted(ValueAt(p[1].entries, j))

\* "aB" and "a_b" both became "a_b", and the later entry's value is the one
\* kept.
Witness4 ==
    /\ case = "Snake" /\ manual_renames = <<>>
    /\ json_in = Object(<<<<K_aB, Number(1)>>, <<K_a_b, String(K_a_b)>>>>)
    /\ json_out = Object(<<<<K_a_b, String(K_a_b)>>>>)

(***************************************************************************)
(* C5.                                                                     *)
(***************************************************************************)
\* C5: arrays. For every array, the root or under a key at any depth, the
\* output is an array of the same length; an element that is a leaf is
\* returned as it is at its index, and an element that is an object is an
\* object whose keys are the resolved keys of the element's keys.
Claim5 ==
    \A p \in ConvertedPairs :
        p[1].tag = "Array" =>
            /\ p[2].tag = "Array"
            /\ Len(p[2].elems) = Len(p[1].elems)
            /\ \A i \in 1..Len(p[1].elems) :
                  /\ IsLeaf(p[1].elems[i]) => p[2].elems[i] = p[1].elems[i]
                  /\ p[1].elems[i].tag = "Object" =>
                        /\ p[2].elems[i].tag = "Object"
                        /\ KeySet(p[2].elems[i].entries) =
                              ResolvedKeys(p[1].elems[i].entries)

\* An array under a key holds the string "a_b", which is a key of the table
\* and is not in camelCase: it was returned as it is.
Witness5 ==
    /\ case = "Camel" /\ rename_behavior = "ByKey"
    /\ manual_renames = <<<<K_a_b, K_aB>>>>
    /\ json_in = Object(<<<<K_b, Array(<<String(K_a_b)>>)>>>>)
    /\ json_out = Object(<<<<K_b, Array(<<String(K_a_b)>>)>>>>)

Claim7 ==
    /\ new_result = "Ok" /\ manual_renames = <<>> /\ rename_behavior = "ByKey"
    /\ [](/\ new_result = "Ok"
          /\ json_out # NoResult =>
                /\ IsValue(json_out)
                /\ IsLeaf(json_in) => json_out = json_in)

\* A root string that is a key of the table, and not in camelCase, was
\* returned as it is.
Witness7 ==
    /\ json_in = String(K_a_b) /\ json_out = String(K_a_b)
    /\ case = "Camel" /\ manual_renames = <<<<K_a_b, K_aB>>>>

(***************************************************************************)
(* C8.                                                                     *)
(***************************************************************************)
\* C8: a step after which convert() has returned leaves the input, the
\* convention, the table and the behaviour as they were, and a convert()
\* that follows a convert() returns the same value.
Claim8 ==
    [][json_out' # NoResult =>
          /\ json_in' = json_in /\ case' = case
          /\ manual_renames' = manual_renames /\ rename_behavior' = rename_behavior
          /\ json_out # NoResult => json_out' = json_out]_vars

\* convert() returned a value that is not the input.
Witness8 ==
    /\ json_out # NoResult /\ json_out # json_in
    /\ json_in = Array(<<Object(<<<<K_aB, Number(1)>>>>)>>)

(***************************************************************************)
(* C9.                                                                     *)
(***************************************************************************)
\* C9: the table and the behaviour in use are the arguments of the latest
\* with_manual_renames and with_custom_rename_behavior (the empty table and
\* ByKey before any); a call that passes a table leaves the behaviour, the
\* convention and the input as they were, a call that passes a behaviour
\* leaves the table, the convention and the input; and convert() returns
\* the conversion under the latest arguments.
Claim9 ==
    /\ manual_renames = <<>> /\ rename_behavior = "ByKey"
    /\ [][/\ manual_renames' = arg_rename_list'
          /\ rename_behavior' = arg_rename_behavior'
          /\ arg_rename_list' # arg_rename_list =>
                rename_behavior' = rename_behavior /\ case' = case /\ json_in' = json_in
          /\ arg_rename_behavior' # arg_rename_behavior =>
                manual_renames' = manual_renames /\ case' = case /\ json_in' = json_in
          /\ json_out' # NoResult =>
                json_out' = internal_convert(json_in', case', arg_rename_list',
                                            arg_rename_behavior')]_vars

\* Both were configured, and the conversion is not the one of a converter
\* left as new made it.
Witness9 ==
    /\ arg_rename_list = <<<<K_a_b, K_aB>>>> /\ arg_rename_behavior = "ByValue"
    /\ json_in = Object(<<<<K_aB, Number(1)>>>>)
    /\ json_out = Object(<<<<K_a_b, Number(1)>>>>)
    /\ case = "Camel"

(***************************************************************************)
(* C10.                                                                    *)
(***************************************************************************)
\* C10: for every object at any depth, the keys of the output object are
\* the resolved keys of the input object's keys, no other and all of them;
\* the output has at most as many entries as the input, and fewer exactly
\* when two input keys resolve to the same key.
Claim10 ==
    \A p \in ConvertedPairs :
        p[1].tag = "Object" =>
            /\ p[2].tag = "Object"
            /\ KeySet(p[2].entries) = ResolvedKeys(p[1].entries)
            /\ Len(p[2].entries) <= Len(p[1].entries)
            /\ Len(p[2].entries) < Len(p[1].entries) <=> Collides(p[1].entries)

\* Two keys that an override and the convention send to the same key: one
\* entry is left.
Witness10 ==
    /\ case = "Camel" /\ rename_behavior = "ByKey"
    /\ manual_renames = <<<<K_b, K_aB>>>>
    /\ json_in.tag = "Object" /\ KeySet(json_in.entries) = {K_b, K_a_b}
    /\ json_out.tag = "Object" /\ KeySet(json_out.entries) = {K_aB}

====
